---- MODULE Spec2Model ----
(***************************************************************************)
(* redux-patch-action-middleware: the patcher registries, the two          *)
(* action-creator factories (full-action and payload-only, direct and      *)
(* curried) and the interception middleware (scoped form of src/index.ts,  *)
(* global form of the earlier index.ts), in front of the store and slice   *)
(* of the test suite.                                                      *)
(***************************************************************************)
EXTENDS Integers, FiniteSets, Sequences, TLC

VARIABLES
    registries,   \* registry name -> Map<string, ActionPatcher>, a set of <<key, value>> entries
    installed,    \* the middleware in the chain of the store under observation
    state,        \* store.getState() of that store: [amount, extra]
    nRegs,        \* number of factory calls made so far
    call          \* the last call made into the library, with what it was given and what it produced

vars == <<registries, installed, state, nRegs, call>>

----------------------------------------------------------------------------
\* Bounds of the model.

\* Factory calls in one behaviour.
MaxRegs == 2

\* Dispatches are made while state.amount is below this.
MaxAmount == 5

----------------------------------------------------------------------------
\* Values.

\* A missing argument / the result of Map.get on a missing key.
Undefined == "<undefined>"

\* The slice's own action: never handed to a factory, so never registered.
ResetType == "test/reset"

\* Identifiers handed to the factories. "" is a string like any other to a Map,
\* and falsy to the factories' argument test.
Types == {"", "test/increment", "test/local-increment"}

\* Scoped middleware instances, each the result of one createPatchActionMiddleware().
Instances == {"A", "B"}

\* The global-form middleware (the earlier createPatchActionMiddleware).
GlobalForm == "G"

Middlewares == Instances \cup {GlobalForm}

\* globalActionPatchers; an instance registry is named by its instance.
GlobalRegistry == "global"

\* A Map the caller owns and hands to a factory as its third argument; no
\* middleware reads it.
CallerRegistry == "caller"

RegistryNames == {GlobalRegistry, CallerRegistry} \cup Instances

\* patchers = globalActionPatchers: the default of the factories' third parameter.
DefaultPatchers(patchers) == IF patchers = Undefined THEN GlobalRegistry ELSE patchers

\* No store has been configured yet.
NoStore == "none"

\* The type the retyping transformation returns: an identifier that may itself
\* be registered.
RetypeTarget == "test/local-increment"

\* Caller-supplied full-action transformations (action, state) -> fields.
ActionFns == {"amountPatcher", "retypePatcher", "throwingPatcher"}

\* Caller-supplied payload transformations (payload, state) -> payload.
PayloadFns == {"amountPayloadPatcher"}

\* What a registry holds: a caller's full-action patcher, or the closure the
\* payload-only factory builds around a payload patcher.
FullPatcher(f) == [wraps |-> FALSE, fn |-> f]

WrappedPatcher(g) == [wraps |-> TRUE, fn |-> g]

UndefinedPatcher == [wraps |-> FALSE, fn |-> Undefined]

Patchers == {FullPatcher(f) : f \in ActionFns} \cup {WrappedPatcher(g) : g \in PayloadFns}

\* Payload amounts the callers dispatch.
Amounts == {2}

\* JavaScript truthiness of a string-or-undefined argument and of a patcher.
Falsy(t) == t = Undefined \/ t = ""

IsPatcher(p) == p.fn # Undefined

----------------------------------------------------------------------------
\* Map<string, ActionPatcher>

EmptyMap == {}

MapHas(m, k) == \E e \in m : e[1] = k

MapGet(m, k) == IF MapHas(m, k) THEN (CHOOSE e \in m : e[1] = k)[2] ELSE UndefinedPatcher

\* Faulty variant: a lookup that takes the entry out of the map.
MapAfterGetDeleting(m, k) == {e \in m : e[1] # k}

\* The map after Map.get(k): as it was.
MapAfterGet(m, k) == m

\* Faulty variant: an insert that drops every other entry.
MapSetReplacingAll(m, k, v) == {<<k, v>>}

\* Faulty variant: an insert that does not replace the entry of the same key.
MapSetKeepingOld(m, k, v) == m \cup {<<k, v>>}

\* Map.set(k, v)
MapSet(m, k, v) == {e \in m : e[1] # k} \cup {<<k, v>>}

MapKeys(m) == {e[1] : e \in m}

----------------------------------------------------------------------------
\* Objects: a record is a function from field names to values.

\* { ...obj, [key]: value }
SpreadWith(obj, key, value) ==
    [k \in (DOMAIN obj) \cup {key} |-> IF k = key THEN value ELSE obj[k]]

Has(obj, key) == key \in DOMAIN obj

\* Faulty variant: an action creator that adds an envelope field to its output.
ActionCreatorWithEnvelope(type, payload) ==
    [type |-> type, payload |-> payload, envelope |-> 1]

\* createAction(type)(payload)
ActionCreator(type, payload) == [type |-> type, payload |-> payload]

InitialState == [amount |-> 0, extra |-> 2]

----------------------------------------------------------------------------
\* The caller's transformations (the test suite's, and one that returns only
\* a payload and a type of its own).

\* (action, state) => ({ ...action, payload: { patchedAmount: ... } })
AmountPatcher(action, st) ==
    SpreadWith(action, "payload",
               [patchedAmount |-> action.payload.amount + st.extra + st.amount])

\* (action, state) => ({ type: 'test/local-increment', payload: action.payload })
RetypePatcher(action, st) == [type |-> RetypeTarget, payload |-> action.payload]

\* (payload, state) => ({ patchedAmount: ... })
AmountPayloadPatcher(payload, st) ==
    [patchedAmount |-> payload.amount + st.extra + st.amount]

\* (action, state) => { throw ... }: a transformation that fails.
Throws(patcher) == ~patcher.wraps /\ patcher.fn = "throwingPatcher"

ApplyActionFn(f, action, st) ==
    IF f = "amountPatcher" THEN AmountPatcher(action, st) ELSE RetypePatcher(action, st)

ApplyPayloadFn(g, payload, st) == AmountPayloadPatcher(payload, st)

\* Faulty variant: a closure that returns the new payload without spreading the action.
PayloadWrapperDroppingFields(g, action, st) ==
    [payload |-> ApplyPayloadFn(g, action.payload, st)]

\* The closure the payload-only factory registers:
\* (action, state) => ({ ...action, payload: payloadPatcher(action.payload, state) })
PayloadWrapper(g, action, st) ==
    SpreadWith(action, "payload", ApplyPayloadFn(g, action.payload, st))

\* patcher(action, state) for a registry entry.
ApplyPatcher(patcher, action, st) ==
    IF patcher.wraps
    THEN PayloadWrapper(patcher.fn, action, st)
    ELSE ApplyActionFn(patcher.fn, action, st)

----------------------------------------------------------------------------
\* The factories. Each yields the registries after the call and the value returned.

\* createAction(type), the action creator a factory returns.
CreatorOf(type) == [kind |-> "actionCreator", type |-> type, bound |-> Undefined]

\* The inner function a factory returns when an argument is falsy; it closes
\* over the factory's patchers argument.
CurriedOf(kind, patchers) == [kind |-> kind, type |-> Undefined, bound |-> patchers]

Registered(regs, patchers, type, actionPatcher) ==
    [regs EXCEPT ![patchers] = MapSet(@, type, actionPatcher)]

\* createPatchedAction(typeOrUndefined, actionPatcher, patchers)
CreatePatchedAction(regs, typeOrUndefined, actionPatcher, patchers) ==
    IF Falsy(typeOrUndefined) \/ ~IsPatcher(actionPatcher)
    THEN [regs |-> regs, ret |-> CurriedOf("curriedPatchedAction", patchers)]
    ELSE [regs |-> Registered(regs, patchers, typeOrUndefined, actionPatcher),
          ret  |-> CreatorOf(typeOrUndefined)]

\* The function createPatchedAction() returns, called with (type, actionPatcher).
CurriedPatchedAction(regs, bound, type, actionPatcher) ==
    [regs |-> Registered(regs, bound, type, actionPatcher), ret |-> CreatorOf(type)]

\* The same function called with (type, actionPatcher, patchers): it declares two
\* parameters, so the third argument is dropped.
CurriedPatchedActionWith(regs, bound, type, actionPatcher, patchers) ==
    CurriedPatchedAction(regs, bound, type, actionPatcher)

\* createPatchedPayloadAction(typeOrUndefined, payloadPatcher, patchers)
CreatePatchedPayloadAction(regs, typeOrUndefined, payloadPatcher, patchers) ==
    IF Falsy(typeOrUndefined) \/ payloadPatcher = Undefined
    THEN [regs |-> regs, ret |-> CurriedOf("curriedPatchedPayloadAction", patchers)]
    ELSE CreatePatchedAction(regs, typeOrUndefined, WrappedPatcher(payloadPatcher), patchers)

\* The function createPatchedPayloadAction() returns, called with (type, payloadPatcher).
CurriedPatchedPayloadAction(regs, bound, type, payloadPatcher) ==
    CreatePatchedAction(regs, type, WrappedPatcher(payloadPatcher), bound)

\* The same function called with (type, payloadPatcher, patchers): the third
\* argument is dropped.
CurriedPatchedPayloadActionWith(regs, bound, type, payloadPatcher, patchers) ==
    CurriedPatchedPayloadAction(regs, bound, type, payloadPatcher)

\* Faulty variants of the instance factory: one registry shared by all
\* instances; a registration that also lands in the global registry.
CreateInstancePatchedActionShared(regs, instance, type, actionPatcher) ==
    IF Falsy(type) \/ ~IsPatcher(actionPatcher)
    THEN CreatePatchedAction(regs, type, actionPatcher, instance)
    ELSE [regs |-> [r \in RegistryNames |->
                        IF r \in Instances THEN MapSet(regs[r], type, actionPatcher)
                        ELSE regs[r]],
          ret  |-> CreatorOf(type)]

CreateInstancePatchedActionAlsoGlobal(regs, instance, type, actionPatcher) ==
    LET own == CreatePatchedAction(regs, type, actionPatcher, instance)
    IN  [regs |-> CreatePatchedAction(own.regs, type, actionPatcher, GlobalRegistry).regs,
         ret  |-> own.ret]

\* createPatchActionMiddleware().createPatchedAction
CreateInstancePatchedAction(regs, instance, type, actionPatcher) ==
    CreatePatchedAction(regs, type, actionPatcher, instance)

\* createPatchActionMiddleware().createPatchedPayloadAction
CreateInstancePatchedPayloadAction(regs, instance, type, payloadPatcher) ==
    CreatePatchedPayloadAction(regs, type, payloadPatcher, instance)

----------------------------------------------------------------------------
\* The middleware.

\* Faulty variant: the state captured when the stage was built.
GetStateCached(st) == InitialState

\* Faulty variant: the transformation is handed a state stripped of a field.
GetStateWithoutExtra(st) == [st EXCEPT !.extra = 0]

\* api.getState(), read when the patcher is about to be called.
GetState(st) == st

\* Faulty variants of the lookup: the global registry first; the instance
\* registry alone; the registries of the other instances consulted as well.
LookupGlobalFirst(regs, instance, type) ==
    LET instancePatcher == MapGet(regs[instance], type)
        globalPatcher   == MapGet(regs[GlobalRegistry], type)
    IN  IF IsPatcher(globalPatcher) THEN globalPatcher ELSE instancePatcher

LookupInstanceOnly(regs, instance, type) == MapGet(regs[instance], type)

LookupAnyInstance(regs, instance, type) ==
    LET instancePatcher == MapGet(regs[instance], type)
        others          == {i \in Instances : i # instance /\ MapHas(regs[i], type)}
        globalPatcher   == MapGet(regs[GlobalRegistry], type)
    IN  IF IsPatcher(instancePatcher) THEN instancePatcher
        ELSE IF others # {} THEN MapGet(regs[CHOOSE i \in others : TRUE], type)
        ELSE globalPatcher

\* Faulty variant: the lookup goes to a snapshot of the registries taken when
\* the module was loaded, before any registration.
LookupScopedInSnapshot(regs, instance, type) ==
    LET snapshot        == [r \in RegistryNames |-> EmptyMap]
        instancePatcher == MapGet(snapshot[instance], type)
        globalPatcher   == MapGet(snapshot[GlobalRegistry], type)
    IN  IF IsPatcher(instancePatcher) THEN instancePatcher ELSE globalPatcher

\* instancePatchers.get(action.type) || globalActionPatchers.get(action.type)
LookupScoped(regs, instance, type) ==
    LET instancePatcher == MapGet(regs[instance], type)
        globalPatcher   == MapGet(regs[GlobalRegistry], type)
    IN  IF IsPatcher(instancePatcher) THEN instancePatcher ELSE globalPatcher

\* Faulty variant: a global form that looks into the instance registries first.
LookupGlobalFormWithInstances(regs, type) ==
    LET holders == {i \in Instances : MapHas(regs[i], type)}
    IN  IF holders # {} THEN MapGet(regs[CHOOSE i \in holders : TRUE], type)
        ELSE MapGet(regs[GlobalRegistry], type)

\* actionPatchers.get(action.type) of the global form
LookupGlobalForm(regs, type) == MapGet(regs[GlobalRegistry], type)

\* Faulty variants of the outgoing action: the type set before the spread
\* ({ type: action.type, ...patchedFields }); the dispatched action's fields kept
\* ({ ...action, ...patchedFields, type: action.type }).
OutgoingKeepingPatchedType(patchedFields, action) ==
    IF Has(patchedFields, "type") THEN patchedFields
    ELSE SpreadWith(patchedFields, "type", action.type)

OutgoingMergedWithAction(patchedFields, action) ==
    [k \in (DOMAIN action) \cup (DOMAIN patchedFields) |->
        IF k = "type" THEN action.type
        ELSE IF k \in DOMAIN patchedFields THEN patchedFields[k] ELSE action[k]]

\* action = { ...patchedFields, type: action.type }
Outgoing(patchedFields, action) == SpreadWith(patchedFields, "type", action.type)

\* The body of the stage after the lookup: what was selected, the state handed
\* to it, whether it threw, the fields it returned, how often next was called,
\* and the object handed to next: the dispatched one ("dispatched") or one the
\* middleware built ("fresh").
NoObject == [obj |-> "none", fields |-> <<>>]

\* next(action): the rest of the pipeline; the store's dispatch returns the
\* action it was given.
NextResult(object) == object

PassedThrough(action) ==
    [patcher |-> UndefinedPatcher, seen |-> {}, invoked |-> <<>>, threw |-> FALSE,
     patched |-> <<>>, nextCalls |-> 1,
     forwarded |-> [obj |-> "dispatched", fields |-> action],
     result |-> NextResult([obj |-> "dispatched", fields |-> action]),
     rawAfter |-> action]

\* The patcher's failure leaves the stage as it is thrown: nothing is forwarded.
Failed(patcher, action, st) ==
    [patcher |-> patcher, seen |-> {st}, invoked |-> <<patcher>>, threw |-> TRUE,
     patched |-> <<>>, nextCalls |-> 0, forwarded |-> NoObject, result |-> NoObject,
     rawAfter |-> action]

\* Faulty variants of the patched branch: the failure is caught and the raw
\* action forwarded; the patched fields are computed and the raw action forwarded.
PatchedCatchingFailure(patcher, action, st) ==
    IF Throws(patcher)
    THEN [PassedThrough(action) EXCEPT !.patcher = patcher, !.seen = {st},
                                       !.invoked = <<patcher>>]
    ELSE LET patchedFields == ApplyPatcher(patcher, action, st)
             outgoing      == [obj |-> "fresh", fields |-> Outgoing(patchedFields, action)]
         IN  [patcher |-> patcher, seen |-> {st}, invoked |-> <<patcher>>, threw |-> FALSE,
              patched |-> patchedFields, nextCalls |-> 1,
              forwarded |-> outgoing, result |-> NextResult(outgoing),
              rawAfter |-> action]

PatchedForwardingRaw(patcher, action, st) ==
    IF Throws(patcher)
    THEN Failed(patcher, action, st)
    ELSE [PassedThrough(action) EXCEPT !.patcher = patcher, !.seen = {st},
                                       !.invoked = <<patcher>>,
                                       !.patched = ApplyPatcher(patcher, action, st)]

\* Faulty variant: the patched fields are written into the dispatched object
\* (Object.assign(action, patchedFields)), which is then forwarded.
PatchedInPlace(patcher, action, st) ==
    IF Throws(patcher)
    THEN Failed(patcher, action, st)
    ELSE LET patchedFields == ApplyPatcher(patcher, action, st)
             outgoing      == [obj |-> "dispatched",
                               fields |-> OutgoingMergedWithAction(patchedFields, action)]
         IN  [patcher |-> patcher, seen |-> {st}, invoked |-> <<patcher>>, threw |-> FALSE,
              patched |-> patchedFields, nextCalls |-> 1,
              forwarded |-> outgoing, result |-> NextResult(outgoing),
              rawAfter |-> outgoing.fields]

\* const patchedFields = patcher(action, state); action = {...}; return next(action)
Patched(patcher, action, st) ==
    IF Throws(patcher)
    THEN Failed(patcher, action, st)
    ELSE LET patchedFields == ApplyPatcher(patcher, action, st)
             outgoing      == [obj |-> "fresh", fields |-> Outgoing(patchedFields, action)]
         IN  [patcher |-> patcher, seen |-> {st}, invoked |-> <<patcher>>, threw |-> FALSE,
              patched |-> patchedFields, nextCalls |-> 1,
              forwarded |-> outgoing, result |-> NextResult(outgoing),
              rawAfter |-> action]

\* Faulty variant: an unregistered action is copied before it is forwarded.
InterceptCopying(patcher, action, st) ==
    IF IsPatcher(patcher)
    THEN Patched(patcher, action, GetState(st))
    ELSE [PassedThrough(action) EXCEPT
            !.forwarded = [obj |-> "fresh", fields |-> SpreadWith(action, "type", action.type)]]

\* Faulty variant: next is called and its result is not returned.
InterceptDroppingResult(patcher, action, st) ==
    IF IsPatcher(patcher)
    THEN [Patched(patcher, action, GetState(st)) EXCEPT !.result = NoObject]
    ELSE [PassedThrough(action) EXCEPT !.result = NoObject]

\* if (patcher) { ... } return next(action)
Intercept(patcher, action, st) ==
    IF IsPatcher(patcher)
    THEN Patched(patcher, action, GetState(st))
    ELSE PassedThrough(action)

\* Faulty variant: the outgoing action is looked up again, so a type the
\* transformation returned selects a second transformation.
MiddlewareScopedRedispatching(regs, instance, action, st) ==
    LET first == Intercept(LookupScoped(regs, instance, action.type), action, st)
        again == IF ~first.threw /\ Has(first.patched, "type")
                 THEN LookupScoped(regs, instance, first.patched.type)
                 ELSE UndefinedPatcher
    IN  IF IsPatcher(again) /\ first.patched.type # action.type
        THEN LET second == Intercept(again, first.forwarded.fields, st)
             IN  [second EXCEPT !.patcher = first.patcher,
                                !.invoked = first.invoked \o second.invoked,
                                !.rawAfter = action]
        ELSE first

\* createPatchActionMiddleware().middleware(api)(next)(action)
MiddlewareScoped(regs, instance, action, st) ==
    Intercept(LookupScoped(regs, instance, action.type), action, st)

\* Faulty variant: a global form that forwards the patched fields as they are,
\* without setting the type again.
MiddlewareGlobalFormKeepingType(regs, action, st) ==
    LET r == Intercept(LookupGlobalForm(regs, action.type), action, st)
    IN  IF IsPatcher(r.patcher) /\ ~r.threw
        THEN [r EXCEPT !.forwarded = [obj |-> "fresh",
                                      fields |-> OutgoingKeepingPatchedType(r.patched, action)],
                       !.result = NextResult([obj |-> "fresh",
                                      fields |-> OutgoingKeepingPatchedType(r.patched, action)])]
        ELSE r

\* createPatchActionMiddleware()(api)(next)(action), global form
MiddlewareGlobalForm(regs, action, st) ==
    Intercept(LookupGlobalForm(regs, action.type), action, st)

\* What createPatchActionMiddleware() returns: the scoped form an object
\* { middleware, createPatchedAction, createPatchedPayloadAction }, the global
\* form the stage function itself.
ReturnedBy(mw) ==
    IF mw \in Instances THEN [kind |-> "object", middleware |-> mw]
    ELSE [kind |-> "function", middleware |-> mw]

\* createPatchActionMiddleware().middleware
MiddlewareProperty(instance) == [kind |-> "function", middleware |-> instance]

\* What is put in the middleware chain of the store under observation: the
\* value createPatchActionMiddleware() returned or its middleware property.
\* The instances are alike, so the store is given instance A's; B is a second
\* instance whose factories are used alongside.
StoreInstances == {"A"}

ChainEntries ==
    {ReturnedBy(mw) : mw \in StoreInstances \cup {GlobalForm}}
    \cup {MiddlewareProperty(i) : i \in StoreInstances}

\* The store calls each chain entry as entry(api)(next): an entry that is not a
\* function makes the store's construction throw.
IsStage(entry) == entry.kind = "function"

----------------------------------------------------------------------------
\* Downstream of the middleware: the test slice's reducer. It takes the patched
\* amount when the action carries one and resets on the slice's reset action.
Reducer(st, action) ==
    IF action.type = ResetType THEN [st EXCEPT !.amount = 0, !.extra = 2]
    ELSE IF Has(action, "payload") /\ Has(action.payload, "patchedAmount")
         THEN [st EXCEPT !.amount = action.payload.patchedAmount]
         ELSE st

\* What callers dispatch: an action creator's output or the slice's reset(),
\* or an action written out by hand, with or without an extra field.
CreatedActions ==
    {ActionCreator(t, [amount |-> p]) : t \in Types, p \in Amounts}
    \cup {[type |-> ResetType]}

HandBuiltActions ==
    {[type |-> t, payload |-> [amount |-> p]] : t \in Types, p \in Amounts}
    \cup {[type |-> t, payload |-> [amount |-> p], meta |-> "m"] : t \in Types, p \in Amounts}

RawActions == CreatedActions \cup HandBuiltActions

----------------------------------------------------------------------------
\* The state machine.

Init ==
    /\ registries = [r \in RegistryNames |-> EmptyMap]
    /\ installed = NoStore
    /\ state = InitialState
    /\ nRegs = 0
    /\ call = [op |-> "none"]

\* configureStore({ reducer, middleware: ... concat(entry) })
ConfigureStore ==
    /\ installed = NoStore
    /\ \E entry \in ChainEntries :
        /\ installed' = IF IsStage(entry) THEN entry.middleware ELSE NoStore
        /\ call' = [op |-> "configureStore", entry |-> entry, threw |-> ~IsStage(entry)]
    /\ UNCHANGED <<registries, state, nRegs>>

\* A factory call with identifier and transformation. target is the registry
\* the call's code path is bound to, given the third argument handed to a
\* curried inner function.
FactoryCall(family, convention, target, given, type, fn, out) ==
    /\ nRegs < MaxRegs
    /\ nRegs' = nRegs + 1
    /\ registries' = out.regs
    /\ call' = [op |-> "factory", family |-> family, convention |-> convention,
                target |-> target, given |-> given, type |-> type, fn |-> fn,
                prior |-> MapGet(registries[target], type), ret |-> out.ret]
    /\ UNCHANGED <<installed, state>>

\* The third argument a caller may pass.
RegistryArgs == {Undefined, CallerRegistry}

\* createPatchedAction(type, f) and createPatchedAction(type, f, patchers)
DirectPatchedAction ==
    \E type \in Types, f \in ActionFns, patchers \in RegistryArgs :
        FactoryCall("action", "direct", DefaultPatchers(patchers), Undefined, type, f,
                    CreatePatchedAction(registries, type, FullPatcher(f),
                                        DefaultPatchers(patchers)))

\* createPatchedAction(undefined, undefined, patchers?)(type, f, given?)
CurriedCallPatchedAction ==
    \E type \in Types, f \in ActionFns, patchers \in RegistryArgs, given \in RegistryArgs :
        LET curried == CreatePatchedAction(registries, Undefined, UndefinedPatcher,
                                           DefaultPatchers(patchers))
        IN  /\ patchers = Undefined \/ given = Undefined
            /\ FactoryCall("action", "curried", DefaultPatchers(patchers), given, type, f,
                            CurriedPatchedActionWith(curried.regs, curried.ret.bound, type,
                                                     FullPatcher(f), given))

\* createPatchedPayloadAction(type, g) and createPatchedPayloadAction(type, g, patchers)
DirectPatchedPayloadAction ==
    \E type \in Types, g \in PayloadFns, patchers \in RegistryArgs :
        FactoryCall("payload", "direct", DefaultPatchers(patchers), Undefined, type, g,
                    CreatePatchedPayloadAction(registries, type, g, DefaultPatchers(patchers)))

\* createPatchedPayloadAction(undefined, undefined, patchers?)(type, g, given?)
CurriedCallPatchedPayloadAction ==
    \E type \in Types, g \in PayloadFns, patchers \in RegistryArgs, given \in RegistryArgs :
        LET curried == CreatePatchedPayloadAction(registries, Undefined, Undefined,
                                                  DefaultPatchers(patchers))
        IN  /\ patchers = Undefined \/ given = Undefined
            /\ FactoryCall("payload", "curried", DefaultPatchers(patchers), given, type, g,
                            CurriedPatchedPayloadActionWith(curried.regs, curried.ret.bound,
                                                            type, g, given))

\* instance.createPatchedAction(type, f)
InstancePatchedAction ==
    \E i \in Instances, type \in Types, f \in ActionFns :
        FactoryCall("action", "instance", i, Undefined, type, f,
                    CreateInstancePatchedAction(registries, i, type, FullPatcher(f)))

\* instance.createPatchedPayloadAction(type, g)
InstancePatchedPayloadAction ==
    \E i \in Instances, type \in Types, g \in PayloadFns :
        FactoryCall("payload", "instance", i, Undefined, type, g,
                    CreateInstancePatchedPayloadAction(registries, i, type, g))

\* The identifier argument of a call that leaves an argument out.
PartialTypes == (Types \ {""}) \cup {Undefined}

\* A factory call with the identifier or the transformation left out.
PartialCall(family, target, type, fn, out) ==
    /\ type = Undefined \/ fn = Undefined
    /\ registries' = out.regs
    /\ call' = [op |-> "partial", family |-> family, target |-> target,
                type |-> type, fn |-> fn, changed |-> out.regs # registries,
                ret |-> out.ret]
    /\ UNCHANGED <<installed, state, nRegs>>

\* createPatchedAction(), createPatchedAction(type), createPatchedAction(undefined, f)
PartialPatchedAction ==
    \E type \in PartialTypes, f \in {"amountPatcher", Undefined} :
        PartialCall("action", GlobalRegistry, type, f,
                    CreatePatchedAction(registries, type,
                                        IF f = Undefined THEN UndefinedPatcher ELSE FullPatcher(f),
                                        DefaultPatchers(Undefined)))

\* createPatchedPayloadAction(), ...(type), ...(undefined, g)
PartialPatchedPayloadAction ==
    \E type \in PartialTypes, g \in PayloadFns \cup {Undefined} :
        PartialCall("payload", GlobalRegistry, type, g,
                    CreatePatchedPayloadAction(registries, type, g, DefaultPatchers(Undefined)))

\* creator(payload), for an action creator some factory call has returned.
CallActionCreator ==
    /\ \E type \in Types, p \in Amounts :
        /\ \E r \in RegistryNames : MapHas(registries[r], type)
        /\ call' = [op |-> "create", type |-> type, payload |-> [amount |-> p],
                    ret |-> ActionCreator(type, [amount |-> p])]
    /\ UNCHANGED <<registries, installed, state, nRegs>>

\* store.dispatch(raw): the stage, then next (the reducer), whose result is
\* returned. made tells whether an action creator or the caller built raw.
Dispatched(raw, made, consulted, r) ==
    /\ raw.type = ResetType \/ state.amount < MaxAmount
    /\ made = "creator" => raw \in CreatedActions
    /\ made = "hand" => raw \in HandBuiltActions
    /\ state' = IF r.threw THEN state ELSE Reducer(state, r.forwarded.fields)
    /\ call' = [op |-> "dispatch", mw |-> installed, raw |-> raw, made |-> made,
                before |-> state, patcher |-> r.patcher, seen |-> r.seen,
                invoked |-> r.invoked, threw |-> r.threw,
                patched |-> r.patched, nextCalls |-> r.nextCalls,
                forwarded |-> r.forwarded, result |-> r.result,
                rawAfter |-> r.rawAfter]
    /\ registries' = [n \in RegistryNames |->
                        IF n \in consulted THEN MapAfterGet(registries[n], raw.type)
                        ELSE registries[n]]
    /\ UNCHANGED <<installed, nRegs>>

DispatchScoped ==
    /\ installed \in Instances
    /\ \E raw \in RawActions, made \in {"creator", "hand"} :
        Dispatched(raw, made, {installed, GlobalRegistry},
                   MiddlewareScoped(registries, installed, raw, state))

DispatchGlobalForm ==
    /\ installed = GlobalForm
    /\ \E raw \in RawActions, made \in {"creator", "hand"} :
        Dispatched(raw, made, {GlobalRegistry},
                   MiddlewareGlobalForm(registries, raw, state))

Next ==
    \/ ConfigureStore
    \/ DirectPatchedAction
    \/ CurriedCallPatchedAction
    \/ DirectPatchedPayloadAction
    \/ CurriedCallPatchedPayloadAction
    \/ InstancePatchedAction
    \/ InstancePatchedPayloadAction
    \/ PartialPatchedAction
    \/ PartialPatchedPayloadAction
    \/ CallActionCreator
    \/ DispatchScoped
    \/ DispatchGlobalForm

Spec == Init /\ [][Next]_vars

----------------------------------------------------------------------------
\* The stage step by step: one dispatch as the sequence of its statements.
\* call holds the position in the stage's body (pc) and its locals.

\* Faulty variant: a stage that, having called the patcher, waits for a turn
\* that nothing gives it.
StageAfterDeferring(pc, found, threw) ==
    IF pc = "lookup" THEN (IF found THEN "read" ELSE "forward")
    ELSE IF pc = "read" THEN "transform"
    ELSE IF pc = "transform" THEN (IF threw THEN "thrown" ELSE "transform")
    ELSE "returned"

\* Where the stage goes after the statement at pc: found tells whether the
\* lookup gave a patcher, threw whether the patcher threw.
\* lookup; if (patcher) { getState; patcher(...); action = {...} } return next(action)
StageAfter(pc, found, threw) ==
    IF pc = "lookup" THEN (IF found THEN "read" ELSE "forward")
    ELSE IF pc = "read" THEN "transform"
    ELSE IF pc = "transform" THEN (IF threw THEN "thrown" ELSE "forward")
    ELSE "returned"

\* A dispatch is inside the stage.
InStage == call.op = "stage" /\ call.pc \notin {"returned", "thrown"}

\* Application setup: the store is configured and factories are called while
\* no dispatch is running.
SetUp ==
    /\ ~InStage
    /\ \/ ConfigureStore
       \/ DirectPatchedAction
       \/ DirectPatchedPayloadAction
       \/ InstancePatchedAction

\* store.dispatch(raw) reaches the stage: (action) => { ...
EnterStage ==
    /\ ~InStage
    /\ installed # NoStore
    /\ \E raw \in RawActions :
        /\ raw.type = ResetType \/ state.amount < MaxAmount
        /\ call' = [op |-> "stage", pc |-> "lookup", mw |-> installed, raw |-> raw,
                    before |-> state, patcher |-> UndefinedPatcher, seen |-> {},
                    patched |-> <<>>, forwarded |-> NoObject, result |-> NoObject]
    /\ UNCHANGED <<registries, installed, state, nRegs>>

\* const patcher = instancePatchers.get(action.type) || globalActionPatchers.get(action.type)
LookupStep ==
    /\ InStage
    /\ call.pc = "lookup"
    /\ LET patcher == IF call.mw \in Instances
                      THEN LookupScoped(registries, call.mw, call.raw.type)
                      ELSE LookupGlobalForm(registries, call.raw.type)
       IN  call' = [call EXCEPT !.patcher = patcher,
                                !.pc = StageAfter("lookup", IsPatcher(patcher), FALSE)]
    /\ UNCHANGED <<registries, installed, state, nRegs>>

\* api.getState(), the argument of the patcher call
ReadStateStep ==
    /\ InStage
    /\ call.pc = "read"
    /\ call' = [call EXCEPT !.seen = {GetState(state)},
                            !.pc = StageAfter("read", TRUE, FALSE)]
    /\ UNCHANGED <<registries, installed, state, nRegs>>

\* const patchedFields = patcher(action, state); action = { ...patchedFields, type }
TransformStep ==
    /\ InStage
    /\ call.pc = "transform"
    /\ \E st \in call.seen :
        LET r == Patched(call.patcher, call.raw, st)
        IN  call' = [call EXCEPT !.patched = r.patched,
                                 !.pc = StageAfter("transform", TRUE, r.threw)]
    /\ UNCHANGED <<registries, installed, state, nRegs>>

\* return next(action)
ForwardStep ==
    /\ InStage
    /\ call.pc = "forward"
    /\ LET outgoing == IF IsPatcher(call.patcher)
                       THEN [obj |-> "fresh", fields |-> Outgoing(call.patched, call.raw)]
                       ELSE [obj |-> "dispatched", fields |-> call.raw]
       IN  /\ state' = Reducer(state, outgoing.fields)
           /\ call' = [call EXCEPT !.forwarded = outgoing,
                                   !.result = NextResult(outgoing),
                                   !.pc = StageAfter("forward", IsPatcher(call.patcher), FALSE)]
    /\ UNCHANGED <<registries, installed, nRegs>>

StageStep == LookupStep \/ ReadStateStep \/ TransformStep \/ ForwardStep

StepNext == SetUp \/ EnterStage \/ StageStep

\* The stage is synchronous code on the caller's thread: once entered, its
\* next statement runs.
StepSpec == Init /\ [][StepNext]_vars /\ WF_vars(StageStep)

----------------------------------------------------------------------------
\* Vocabulary of the properties.

\* The transformations registry r holds under identifier k.
Entries(r, k) == {e[2] : e \in {x \in registries[r] : x[1] = k}}

\* The last call was a dispatch that ran to its end.
Dispatch == call.op = "dispatch"

Forwarded == Dispatch /\ ~call.threw

\* The last call was a factory call that returned an action creator.
RegisteredCall == call.op = "factory" /\ call.ret.kind = "actionCreator"

\* The registry entry a factory call asks for.
EntryOf(c) == IF c.family = "payload" THEN WrappedPatcher(c.fn) ELSE FullPatcher(c.fn)

\* The registry whose entry for the dispatched type is in force for the last
\* dispatch: the instance's own when it has one, else the global one.
RegistryInForce ==
    IF call.mw \in Instances /\ Entries(call.mw, call.raw.type) # {}
    THEN call.mw ELSE GlobalRegistry

\* obj has every field of base but payload, with base's value.
KeepsOtherFields(obj, base) ==
    /\ DOMAIN obj = (DOMAIN base) \cup {"payload"}
    /\ \A k \in (DOMAIN base) \ {"payload"} : obj[k] = base[k]

----------------------------------------------------------------------------
\* C1: a dispatched action whose type has no entry in the instance registry
\* and none in the global registry reaches the next stage as the very same
\* object, with the same fields, and the dispatch raises no error.
C1_UnregisteredPassesThrough ==
    ( /\ Dispatch
      /\ Entries(GlobalRegistry, call.raw.type) = {}
      /\ call.mw \in Instances => Entries(call.mw, call.raw.type) = {} )
    => /\ ~call.threw
       /\ call.nextCalls = 1
       /\ call.forwarded.obj = "dispatched"
       /\ call.forwarded.fields = call.raw

C1_Witness ==
    /\ Dispatch
    /\ call.mw \in Instances
    /\ call.raw.type = "test/increment"
    /\ Has(call.raw, "meta")
    /\ Entries(GlobalRegistry, call.raw.type) = {}
    /\ Entries(call.mw, call.raw.type) = {}
    /\ \E i \in Instances : Entries(i, call.raw.type) # {}
    /\ call.forwarded.obj = "dispatched"

\* C2: with a full-action transformation f in force for the dispatched type,
\* the action reaching the next stage is { ...f(A, s), type: A.type }: its
\* fields are those f returned plus type, each non-type field has the value f
\* returned, and type is A's.
C2_OutgoingIsPatchedFieldsWithType ==
    ( /\ Forwarded
      /\ \E f \in ActionFns : Entries(RegistryInForce, call.raw.type) = {FullPatcher(f)} )
    => LET f        == (CHOOSE e \in Entries(RegistryInForce, call.raw.type) : TRUE).fn
           returned == ApplyActionFn(f, call.raw, call.before)
           out      == call.forwarded.fields
       IN  /\ DOMAIN out = (DOMAIN returned) \cup {"type"}
           /\ out.type = call.raw.type
           /\ \A k \in (DOMAIN returned) \ {"type"} : out[k] = returned[k]

C2_Witness ==
    /\ Forwarded
    /\ Entries(RegistryInForce, call.raw.type) = {FullPatcher("retypePatcher")}
    /\ Has(call.raw, "meta")
    /\ ~Has(call.forwarded.fields, "meta")
    /\ call.forwarded.fields.payload = call.raw.payload

\* C3: in every dispatch that forwards, through either middleware form and
\* with either kind of transformation, the forwarded action's type is the
\* dispatched action's type, also when the transformation returned another.
C3_TypeIsReimposed ==
    Forwarded => call.forwarded.fields.type = call.raw.type

C3_Witness ==
    /\ Forwarded
    /\ call.mw = GlobalForm
    /\ Has(call.patched, "type")
    /\ call.patched.type # call.raw.type
    /\ call.forwarded.fields.type = call.raw.type

\* C4: with a payload-only transformation g in force for the dispatched type,
\* the outgoing payload is g(A.payload, s) and every other field of A reaches
\* the next stage with its original value.
C4_PayloadPatcherKeepsOtherFields ==
    ( /\ Dispatch
      /\ \E g \in PayloadFns : Entries(RegistryInForce, call.raw.type) = {WrappedPatcher(g)} )
    => LET g   == (CHOOSE e \in Entries(RegistryInForce, call.raw.type) : TRUE).fn
           out == call.forwarded.fields
       IN  /\ ~call.threw
           /\ out.payload = ApplyPayloadFn(g, call.raw.payload, call.before)
           /\ KeepsOtherFields(out, call.raw)

C4_Witness ==
    /\ Forwarded
    /\ call.patcher.wraps
    /\ Has(call.raw, "meta")
    /\ call.forwarded.fields.meta = call.raw.meta
    /\ call.forwarded.fields.payload # call.raw.payload

\* C5: when the instance registry of a scoped middleware and the global
\* registry both hold a transformation for the dispatched identifier, the
\* dispatch applies the instance's and not the global one.
C5_InstanceTakesPrecedence ==
    ( /\ Dispatch
      /\ call.mw \in Instances
      /\ Entries(call.mw, call.raw.type) # {}
      /\ Entries(GlobalRegistry, call.raw.type) # {} )
    => /\ call.patcher \in Entries(call.mw, call.raw.type)
       /\ ~call.threw => call.patched = ApplyPatcher(call.patcher, call.raw, call.before)

C5_Witness ==
    /\ Forwarded
    /\ call.mw \in Instances
    /\ Entries(call.mw, call.raw.type) = {FullPatcher("retypePatcher")}
    /\ Entries(GlobalRegistry, call.raw.type) = {FullPatcher("amountPatcher")}
    /\ call.patcher = FullPatcher("retypePatcher")
    /\ state = call.before

\* C6: when the instance registry has no entry for the dispatched type and
\* the global registry has one, the scoped middleware applies the global one.
C6_FallsBackToGlobal ==
    ( /\ Dispatch
      /\ call.mw \in Instances
      /\ Entries(call.mw, call.raw.type) = {}
      /\ Entries(GlobalRegistry, call.raw.type) # {} )
    => /\ call.patcher \in Entries(GlobalRegistry, call.raw.type)
       /\ ~call.threw =>
            /\ call.forwarded.obj = "fresh"
            /\ call.patched = ApplyPatcher(call.patcher, call.raw, call.before)

C6_Witness ==
    /\ Forwarded
    /\ call.mw \in Instances
    /\ registries[call.mw] = EmptyMap
    /\ Entries(GlobalRegistry, call.raw.type) = {WrappedPatcher("amountPayloadPatcher")}
    /\ call.forwarded.fields.payload.patchedAmount = call.raw.payload.amount + 2

\* C7: a registration in a registry that already has an entry for the
\* identifier replaces it: the registry holds one entry for the identifier,
\* the one registered last, every later dispatch is served from it, and the
\* registering call returns its action creator.
C7_LastRegistrationWins ==
    /\ \A r \in RegistryNames : \A k \in MapKeys(registries[r]) :
            Cardinality(Entries(r, k)) = 1
    /\ RegisteredCall => Entries(call.target, call.type) = {EntryOf(call)}
    /\ (call.op = "factory" /\ IsPatcher(call.prior) /\ ~Falsy(call.type)) => RegisteredCall
    /\ (Dispatch /\ IsPatcher(call.patcher)) =>
            Entries(RegistryInForce, call.raw.type) = {call.patcher}

C7_Witness ==
    /\ RegisteredCall
    /\ IsPatcher(call.prior)
    /\ call.prior # EntryOf(call)
    /\ Entries(call.target, call.type) = {EntryOf(call)}

\* C8: the transformation is handed the store's state as it is when the
\* action is intercepted, so it sees the updates of the dispatches before it:
\* from {amount: 0, extra: 2} the amount patcher on payload {amount: 2} gives
\* 4, and on a second dispatch 8.
C8_StateIsReadAtInterception ==
    (Dispatch /\ IsPatcher(call.patcher)) =>
        /\ call.seen = {call.before}
        /\ (~call.threw /\ call.patcher.fn \in {"amountPatcher", "amountPayloadPatcher"}) =>
              /\ state.amount = call.raw.payload.amount + call.before.extra + call.before.amount
              /\ state.extra = call.before.extra
              /\ (call.before = InitialState /\ call.raw.payload.amount = 2) => state.amount = 4
              /\ (call.before = [amount |-> 4, extra |-> 2] /\ call.raw.payload.amount = 2)
                    => state.amount = 8

C8_Witness ==
    /\ Forwarded
    /\ call.patcher = FullPatcher("amountPatcher")
    /\ call.raw.payload.amount = 2
    /\ call.before = [amount |-> 4, extra |-> 2]
    /\ state = [amount |-> 8, extra |-> 2]

\* C9: what a scoped middleware does with a dispatched action is decided by
\* its own instance registry and the global registry alone: its own entry is
\* applied when it has one, and an identifier held by neither passes through
\* unchanged, whatever the other instances have registered.
C9_InstancesAreIsolated ==
    (Dispatch /\ call.mw \in Instances) =>
        LET own    == Entries(call.mw, call.raw.type)
            global == Entries(GlobalRegistry, call.raw.type)
        IN  /\ own # {} => own = {call.patcher}
            /\ (own = {} /\ global # {}) => global = {call.patcher}
            /\ (own = {} /\ global = {}) =>
                  /\ ~IsPatcher(call.patcher)
                  /\ call.forwarded = [obj |-> "dispatched", fields |-> call.raw]

C9_Witness ==
    /\ Forwarded
    /\ call.mw = "A"
    /\ Entries("A", "test/increment") = {FullPatcher("amountPatcher")}
    /\ Entries("B", "test/increment") = {FullPatcher("retypePatcher")}
    /\ call.raw.type = "test/increment"
    /\ call.patcher = FullPatcher("amountPatcher")

C9_WitnessOnlyInOther ==
    /\ Forwarded
    /\ call.mw = "A"
    /\ Entries("A", call.raw.type) = {}
    /\ Entries(GlobalRegistry, call.raw.type) = {}
    /\ Entries("B", call.raw.type) # {}
    /\ call.forwarded.obj = "dispatched"

\* C10: for both factory families and every identifier, factory()(type, fn)
\* and factory(type, fn) leave the registries in the same state and return
\* action creators for the same type.
C10_CurriedEqualsDirect ==
    \A type \in Types :
        /\ \A f \in ActionFns :
            LET direct  == CreatePatchedAction(registries, type, FullPatcher(f), GlobalRegistry)
                factory == CreatePatchedAction(registries, Undefined, UndefinedPatcher, GlobalRegistry)
                curried == CurriedPatchedAction(factory.regs, factory.ret.bound, type, FullPatcher(f))
            IN  direct.regs = curried.regs /\ direct.ret = curried.ret
        /\ \A g \in PayloadFns :
            LET direct  == CreatePatchedPayloadAction(registries, type, g, GlobalRegistry)
                factory == CreatePatchedPayloadAction(registries, Undefined, Undefined, GlobalRegistry)
                curried == CurriedPatchedPayloadAction(factory.regs, factory.ret.bound, type, g)
            IN  direct.regs = curried.regs /\ direct.ret = curried.ret

\* C11: registration happens at the factory call: as soon as factory(type, f, R)
\* returns, R maps type to f and the call has returned the action creator for
\* type; calling an action creator with payload p returns {type, payload: p}.
C11_RegisteredWhenFactoryReturns ==
    /\ (call.op = "factory" /\ call.convention \in {"direct", "instance"}) =>
            /\ Entries(call.target, call.type) = {EntryOf(call)}
            /\ call.ret = CreatorOf(call.type)
    /\ call.op = "create" =>
            /\ DOMAIN call.ret = {"type", "payload"}
            /\ call.ret.type = call.type
            /\ call.ret.payload = call.payload

\* C12: a factory call with the identifier or the transformation left out
\* changes no registry and returns a function bound to the call's registry;
\* that function, called with (type, transformation), registers the
\* transformation under type in that registry and returns the action creator.
C12_PartialCallReturnsRegisteringFunction ==
    /\ call.op = "partial" =>
            /\ ~call.changed
            /\ call.ret.kind \in {"curriedPatchedAction", "curriedPatchedPayloadAction"}
            /\ call.ret.bound = call.target
    /\ (call.op = "factory" /\ call.convention = "curried") =>
            /\ Entries(call.target, call.type) = {EntryOf(call)}
            /\ call.ret = CreatorOf(call.type)

\* C13: when the transformation in force for the dispatched action fails, the
\* dispatch fails: the transformation has been invoked once, the next stage
\* has not been invoked, nothing has been forwarded and the store's state is
\* as it was.
C13_FailureAbortsDispatch ==
    ( /\ Dispatch
      /\ \E e \in Entries(RegistryInForce, call.raw.type) : Throws(e) )
    => /\ call.threw
       /\ call.invoked = <<call.patcher>>
       /\ Throws(call.patcher)
       /\ call.nextCalls = 0
       /\ call.forwarded = NoObject
       /\ call.result = NoObject
       /\ state = call.before

C13_Witness ==
    /\ Dispatch
    /\ call.threw
    /\ call.patcher = FullPatcher("throwingPatcher")
    /\ call.before.amount > 0
    /\ state = call.before

\* C14: a dispatch that does not fail invokes the next stage exactly once, and
\* when a transformation is in force for the action's type the object handed
\* to the next stage is the patched action the middleware built, not the
\* dispatched one.
C14_NextGetsPatchedActionOnce ==
    Forwarded =>
        /\ call.nextCalls = 1
        /\ \A e \in Entries(RegistryInForce, call.raw.type) :
              /\ call.forwarded.obj = "fresh"
              /\ call.forwarded.fields =
                    Outgoing(ApplyPatcher(e, call.raw, call.before), call.raw)

C14_Witness ==
    /\ Forwarded
    /\ call.made = "creator"
    /\ Entries(RegistryInForce, call.raw.type) = {FullPatcher("amountPatcher")}
    /\ call.nextCalls = 1
    /\ call.forwarded.obj = "fresh"
    /\ call.forwarded.fields.payload # call.raw.payload

\* C15: the value createPatchActionMiddleware() returns is itself the stage,
\* so a store configured with that value in its middleware chain is built and
\* runs that middleware.
C15_ReturnedValueIsTheStage ==
    ( /\ call.op = "configureStore"
      /\ call.entry = ReturnedBy(call.entry.middleware) )
    => /\ ~call.threw
       /\ installed = call.entry.middleware

\* C16: the function a curried factory call returns, called with
\* (type, transformation, registry), registers the transformation in the
\* registry given there, and the global registry only when none is given.
C16_CurriedFunctionTakesRegistry ==
    ( /\ RegisteredCall
      /\ call.convention = "curried" )
    => IF call.given # Undefined
       THEN Entries(call.given, call.type) = {EntryOf(call)}
       ELSE Entries(call.target, call.type) = {EntryOf(call)}

\* C17: for every identifier string, the empty one included, the direct call
\* factory(type, f) leaves f under type in the target registry and returns an
\* action creator for type.
C17_DirectCallStoresEveryIdentifier ==
    (call.op = "factory" /\ call.convention = "direct") =>
        /\ MapGet(registries[call.target], call.type) = EntryOf(call)
        /\ call.ret.kind = "actionCreator"
        /\ call.ret.type = call.type

\* C18: the global form takes the transformation from the global registry
\* alone: with no global entry for the dispatched type the action passes
\* through whatever the instance registries hold, and with a global entry
\* that entry is the one applied.
C18_GlobalFormIgnoresInstances ==
    (Dispatch /\ call.mw = GlobalForm) =>
        LET global == Entries(GlobalRegistry, call.raw.type)
        IN  /\ global = {} =>
                  /\ ~IsPatcher(call.patcher)
                  /\ call.forwarded = [obj |-> "dispatched", fields |-> call.raw]
            /\ global # {} => global = {call.patcher}

C18_Witness ==
    /\ Forwarded
    /\ call.mw = GlobalForm
    /\ Entries(GlobalRegistry, call.raw.type) = {}
    /\ \E i \in Instances : Entries(i, call.raw.type) # {}
    /\ call.forwarded.obj = "dispatched"

C18_WitnessBothHold ==
    /\ Forwarded
    /\ call.mw = GlobalForm
    /\ Entries(GlobalRegistry, call.raw.type) = {FullPatcher("amountPatcher")}
    /\ Entries("A", call.raw.type) = {FullPatcher("retypePatcher")}
    /\ call.patcher = FullPatcher("amountPatcher")

\* C19: the result a dispatch returns is the result the next stage returned
\* for the action handed to it, for a patched action and for one passed through.
C19_ResultIsNextsResult ==
    Forwarded =>
        /\ call.nextCalls = 1
        /\ call.result = NextResult(call.forwarded)

C19_Witness ==
    /\ Forwarded
    /\ IsPatcher(call.patcher)
    /\ call.forwarded.obj = "fresh"
    /\ call.result = call.forwarded
    /\ call.result.fields # call.raw

C19_WitnessPassedThrough ==
    /\ Forwarded
    /\ ~IsPatcher(call.patcher)
    /\ call.result = [obj |-> "dispatched", fields |-> call.raw]

\* C20: a hand-built action {type: T, payload: p} is treated by the middleware
\* exactly as the action the action creator for T makes of p: the same
\* transformation is selected, it returns the same fields, and the same
\* action is forwarded or the same failure raised.
C20_HandBuiltPatchedAsCreated ==
    ( /\ Dispatch
      /\ call.made = "hand"
      /\ DOMAIN call.raw = {"type", "payload"} )
    => LET created == ActionCreator(call.raw.type, call.raw.payload)
           r == IF call.mw \in Instances
                THEN MiddlewareScoped(registries, call.mw, created, call.before)
                ELSE MiddlewareGlobalForm(registries, created, call.before)
       IN  /\ call.patcher = r.patcher
           /\ call.threw = r.threw
           /\ call.patched = r.patched
           /\ call.forwarded.fields = r.forwarded.fields
           /\ call.result.fields = r.result.fields

C20_Witness ==
    /\ Forwarded
    /\ call.made = "hand"
    /\ DOMAIN call.raw = {"type", "payload"}
    /\ call.patcher = FullPatcher("amountPatcher")
    /\ call.forwarded.fields.payload.patchedAmount =
            call.raw.payload.amount + call.before.extra + call.before.amount

\* C21: the global registry is one, shared by the middleware instances: a
\* global entry for the dispatched type is the one every instance without an
\* entry of its own applies; and an instance registry changes only through a
\* call of that instance's own bound factories.
C21_GlobalSharedInstancesOwned ==
    /\ [](Dispatch =>
            \A i \in Instances :
                (Entries(i, call.raw.type) = {} /\ Entries(GlobalRegistry, call.raw.type) # {})
                => /\ MiddlewareScoped(registries, i, call.raw, call.before).patcher
                        \in Entries(GlobalRegistry, call.raw.type)
                   /\ call.mw = i => call.patcher \in Entries(GlobalRegistry, call.raw.type))
    /\ [][\A i \in Instances :
            registries'[i] # registries[i]
            => /\ call'.op = "factory"
               /\ call'.convention = "instance"
               /\ call'.target = i]_vars

C21_Witness ==
    /\ Forwarded
    /\ call.mw = "A"
    /\ \A i \in Instances : Entries(i, call.raw.type) = {}
    /\ registries["B"] # EmptyMap
    /\ Entries(GlobalRegistry, call.raw.type) = {call.patcher}
    /\ call.forwarded.obj = "fresh"

\* C22: a scoped middleware whose instance registry has no entry for the
\* dispatched type does what the global form does with the same registries,
\* action and state: same transformation, same failure, same forwarded action.
C22_ScopedWithoutEntryIsGlobalForm ==
    /\ (Dispatch /\ call.mw \in Instances /\ Entries(call.mw, call.raw.type) = {}) =>
            LET g == MiddlewareGlobalForm(registries, call.raw, call.before)
            IN  /\ call.patcher = g.patcher
                /\ call.threw = g.threw
                /\ call.forwarded = g.forwarded
                /\ call.result = g.result
    /\ (Dispatch /\ call.mw = GlobalForm) =>
            \A i \in Instances :
                Entries(i, call.raw.type) = {} =>
                    LET sc == MiddlewareScoped(registries, i, call.raw, call.before)
                    IN  /\ call.patcher = sc.patcher
                        /\ call.threw = sc.threw
                        /\ call.forwarded = sc.forwarded
                        /\ call.result = sc.result

C22_Witness ==
    /\ Forwarded
    /\ call.mw = "A"
    /\ registries["A"] = EmptyMap
    /\ Entries(GlobalRegistry, call.raw.type) = {FullPatcher("retypePatcher")}
    /\ call.raw.type # RetypeTarget
    /\ call.forwarded.obj = "fresh"
    /\ call.forwarded.fields.type = call.raw.type

\* C23: registering payload transformation g for a type through the payload
\* factory leaves the registries as registering the closure
\* (action, state) -> { ...action, payload: g(action.payload, state) } through
\* the full-action factory does, in either calling convention, and a
\* dispatch served by such an entry forwards what that closure returns.
C23_PayloadFactoryIsActionFactoryOfWrapper ==
    /\ \A type \in Types, g \in PayloadFns :
        /\ CreatePatchedPayloadAction(registries, type, g, GlobalRegistry).regs
              = CreatePatchedAction(registries, type, WrappedPatcher(g), GlobalRegistry).regs
        /\ CurriedPatchedPayloadAction(registries, GlobalRegistry, type, g).regs
              = CurriedPatchedAction(registries, GlobalRegistry, type, WrappedPatcher(g)).regs
    /\ (Forwarded /\ IsPatcher(call.patcher) /\ call.patcher.wraps) =>
            call.forwarded.fields =
                Outgoing(SpreadWith(call.raw, "payload",
                                    ApplyPayloadFn(call.patcher.fn, call.raw.payload, call.before)),
                         call.raw)

\* C24: no step removes an identifier from a registry: the identifiers each
\* registry holds after a step include those it held before.
C24_EntriesAreNeverRemoved ==
    [][\A r \in RegistryNames : MapKeys(registries[r]) \subseteq MapKeys(registries'[r])]_vars

C24_Witness ==
    /\ Dispatch
    /\ call.before.amount > 0
    /\ \E r \in RegistryNames : Cardinality(MapKeys(registries[r])) = 2

\* C25: a registration changes its target registry alone: a call of an
\* instance's bound factory leaves the global registry and the other
\* instances' registries as they were, a call of a global factory leaves
\* every instance registry as it was.
C25_RegistrationChangesOnlyItsTarget ==
    [][call'.op = "factory" =>
            /\ \A r \in RegistryNames \ {call'.target} : registries'[r] = registries[r]
            /\ call'.convention # "instance" =>
                    \A i \in Instances : registries'[i] = registries[i]]_vars

C25_Witness ==
    /\ RegisteredCall
    /\ call.convention = "instance"
    /\ Entries(call.target, call.type) = {EntryOf(call)}
    /\ Entries(GlobalRegistry, call.type) # {}
    /\ Entries(GlobalRegistry, call.type) # {EntryOf(call)}

\* C26: a dispatch leaves every registry with exactly the entries it had,
\* whether the action was patched, passed through or its transformation failed.
C26_DispatchOnlyReadsRegistries ==
    [][call'.op = "dispatch" => registries' = registries]_vars

C26_Witness ==
    /\ Forwarded
    /\ IsPatcher(call.patcher)
    /\ Entries(RegistryInForce, call.raw.type) = {call.patcher}
    /\ state # call.before

C26_WitnessFailed ==
    /\ Dispatch
    /\ call.threw
    /\ Entries(RegistryInForce, call.raw.type) = {call.patcher}

\* C27: the transformation is handed the store's state as getState returned
\* it, and the state after a dispatch is what the next stage made of the
\* forwarded action: unchanged when the dispatch failed, and with extra as it
\* was.
C27_StateHandedOverUnchanged ==
    Dispatch =>
        /\ IsPatcher(call.patcher) => call.seen = {call.before}
        /\ call.threw => state = call.before
        /\ ~call.threw => state = Reducer(call.before, call.forwarded.fields)
        /\ state.extra = call.before.extra

C27_Witness ==
    /\ Forwarded
    /\ call.patcher = WrappedPatcher("amountPayloadPatcher")
    /\ call.seen = {[amount |-> 4, extra |-> 2]}
    /\ state = [amount |-> 8, extra |-> 2]

\* C28: each dispatch is served from the registries as they are when it
\* starts: the transformation it applies is the entry in force in the
\* registries of the state the dispatch step starts from, none when there is
\* none.
C28_LookupAtEachDispatch ==
    [][call'.op = "dispatch" =>
            LET type   == call'.raw.type
                own    == IF call'.mw \in Instances THEN Entries(call'.mw, type) ELSE {}
                served == IF own # {} THEN own ELSE Entries(GlobalRegistry, type)
            IN  /\ served = {} => ~IsPatcher(call'.patcher)
                /\ served # {} => served = {call'.patcher}]_vars

C28_Witness ==
    /\ Forwarded
    /\ call.patcher = FullPatcher("retypePatcher")
    /\ call.before.amount = 4
    /\ \A r \in RegistryNames :
            registries[r] = IF r = RegistryInForce
                            THEN {<<call.raw.type, call.patcher>>} ELSE EmptyMap

\* C29: a dispatch invokes at most one transformation, once: the entry in
\* force for the dispatched type; what it returns goes to the next stage with
\* no second lookup, also when the type it returned is a registered identifier.
C29_OneTransformationOnce ==
    Dispatch =>
        /\ Len(call.invoked) <= 1
        /\ IsPatcher(call.patcher) =>
              /\ call.invoked = <<call.patcher>>
              /\ Entries(RegistryInForce, call.raw.type) = {call.patcher}
        /\ (IsPatcher(call.patcher) /\ ~call.threw) =>
              /\ call.patched = ApplyPatcher(call.patcher, call.raw, call.before)
              /\ call.forwarded.fields = Outgoing(call.patched, call.raw)

C29_Witness ==
    /\ Forwarded
    /\ call.mw \in Instances
    /\ call.patcher = FullPatcher("retypePatcher")
    /\ call.patched.type # call.raw.type
    /\ Entries(GlobalRegistry, call.patched.type) = {FullPatcher("amountPatcher")}
    /\ call.invoked = <<call.patcher>>
    /\ call.forwarded.fields.payload = call.raw.payload

\* C30: the dispatched action object is left as it was: after the dispatch it
\* has the fields and values it was dispatched with, and a patched action
\* reaches the next stage as a new object.
C30_DispatchedActionIsNotModified ==
    Dispatch =>
        /\ call.rawAfter = call.raw
        /\ (IsPatcher(call.patcher) /\ ~call.threw) => call.forwarded.obj = "fresh"

C30_Witness ==
    /\ Forwarded
    /\ call.patcher.wraps
    /\ call.forwarded.obj = "fresh"
    /\ call.forwarded.fields # call.raw
    /\ call.rawAfter = call.raw

\* C31: a dispatch that has entered the stage completes in that call: its
\* statements run in the order lookup, state read, transformation, forward
\* (lookup, forward when no transformation is found), no statement leads back
\* or elsewhere, the stage ends by returning after the forward or by the
\* transformation's failure, and what was forwarded is the stage's outgoing
\* action.
C31_DispatchCompletesInline ==
    /\ [][call'.op = "stage" =>
            IF InStage
            THEN \/ /\ call.pc = "lookup" /\ call'.pc = "read" /\ IsPatcher(call'.patcher)
                 \/ /\ call.pc = "lookup" /\ call'.pc = "forward" /\ ~IsPatcher(call'.patcher)
                 \/ /\ call.pc = "read" /\ call'.pc = "transform"
                 \/ /\ call.pc = "transform" /\ call'.pc = "forward" /\ ~Throws(call.patcher)
                 \/ /\ call.pc = "transform" /\ call'.pc = "thrown" /\ Throws(call.patcher)
                 \/ /\ call.pc = "forward" /\ call'.pc = "returned"
            ELSE call'.pc = "lookup"]_vars
    /\ [][InStage => call'.op = "stage" /\ call'.raw = call.raw]_vars
    /\ []((call.op = "stage" /\ call.pc = "returned") =>
            LET r == IF call.mw \in Instances
                     THEN MiddlewareScoped(registries, call.mw, call.raw, call.before)
                     ELSE MiddlewareGlobalForm(registries, call.raw, call.before)
            IN  /\ call.forwarded = r.forwarded
                /\ call.result = r.result
                /\ IsPatcher(call.patcher) => call.seen = {call.before})
    /\ InStage ~> (call.op = "stage" /\ call.pc \in {"returned", "thrown"})

C31_Witness ==
    /\ call.op = "stage"
    /\ call.pc = "returned"
    /\ call.patcher = FullPatcher("amountPatcher")
    /\ call.seen = {call.before}
    /\ call.forwarded.obj = "fresh"
    /\ state.amount = call.forwarded.fields.payload.patchedAmount
    /\ state # call.before

====
